---- MODULE Spec2Model ----
(***************************************************************************)
(* The transaction pipeline of the splits-sdk clients: the Templates       *)
(* client (createRecoup) of client/templates.ts and the Swapper client     *)
(* exercised by client/swapper.test.ts.  One facade instance is            *)
(* constructed, and calls are made on it and on its callData and           *)
(* estimateGas members one after the other; every call is followed         *)
(* through its awaits (token lookup, contract call, event extraction).     *)
(***************************************************************************)
EXTENDS Integers, Sequences, FiniteSets, TLC

VARIABLES
    config,     \* the SplitsClientConfig handed to the facade constructor
    client,     \* the constructed facade (with its two members), or NoClient
    ctorError,  \* what the constructor threw, or NoError
    call,       \* the call in progress or last finished, or Idle
    pending,    \* the calls suspended at an await while another runs
    form        \* the create-split form as rendered, or NoForm

vars == <<config, client, ctorError, call, pending, form>>

----------------------------------------------------------------------------
(* Bounds of the model *)

\* longest tranche list given to createRecoup
MaxTranches == 2
\* most logs carried by a mined transaction
MaxLogs == 2

----------------------------------------------------------------------------
(* Values *)

AddressZero == "0x0"

\* `undefined` as a tranche index
UndefinedIndex == -1

\* an argument left out by the caller
Omitted == "omitted"

\* strings given as addresses: the zero sentinel, a well-formed address, and
\* a string that is no address
AddressInputs == {AddressZero, "0xA", "bad"}

RECURSIVE SeqsUpTo(_, _)
SeqsUpTo(S, n) ==
    IF n = 0 THEN {<<>>}
    ELSE LET shorter == SeqsUpTo(S, n - 1)
         IN  shorter \cup {Append(s, x) : s \in {t \in shorter : Len(t) = n - 1}, x \in S}

\* a tranche is given by its recipient
TrancheInputs == SeqsUpTo({"0xA", "bad"}, MaxTranches) \ {<<>>}

IndexInputs == {UndefinedIndex} \cup (0..MaxTranches)

CreateRecoupInputs ==
    [token : {"0xA", "bad"},
     tranches : TrancheInputs,
     nonWaterfallRecipientAddress : AddressInputs \cup {Omitted},
     nonWaterfallRecipientTrancheIndex : IndexInputs]

SupportedChainIds == {1, 5, 137, 80001, 10, 420, 42161, 421613}

TEMPLATES_CHAIN_IDS == SupportedChainIds

SWAPPER_CHAIN_IDS == SupportedChainIds

\* chain ids handed to the constructors: supported ones and unsupported ones
ChainIdInputs == {1, 10, 421613, 51}

ConfigInputs ==
    [chainId : ChainIdInputs,
     provider : BOOLEAN,
     ensProvider : BOOLEAN,
     signer : BOOLEAN,
     includeEnsNames : BOOLEAN]

----------------------------------------------------------------------------
(* Errors *)

Err(name, source, payload) == [name |-> name, source |-> source, payload |-> payload]

NoError == Err("none", "", {})

InvalidConfigError == Err("InvalidConfigError", "includeEnsNames", {})

UnsupportedChainIdError(chainId, supported) ==
    Err("UnsupportedChainIdError", "chainId", supported)

MissingProviderError == Err("MissingProviderError", "_requireProvider", {})

MissingSignerError == Err("MissingSignerError", "_requireSigner", {})

TransactionFailedError == Err("TransactionFailedError", "", {})

InvalidResponse == Err("Error", "Invalid response", {})

ProviderRequired == Err("Error", "Provider required", {})

\* a rejection of the transport, handed on as it came
NetworkError(step) == Err("NetworkError", step, {})

\* a single-field validator's error names the field
ValidationError(field) == Err("ValidationError", field, {})

\* the cross-field rule's error
InvalidArgumentError(field) == Err("InvalidArgumentError", field, {})

----------------------------------------------------------------------------
(* Construction *)

NoClient == [entity |-> "none"]

\* BaseTransactions: only a submitted transaction needs the signer
ShouldRequireSigner(transactionType) == transactionType = "Transaction"

\* BaseTransactions._getTransactionContract: what the instance calls
GetTransactionContract(transactionType) ==
    CASE transactionType = "CallData" -> "ContractCallData"
      [] transactionType = "GasEstimate" -> "estimateGas"
      [] OTHER -> "Contract"

\* the base constructor's check of the configuration
BaseConfigError(cfg) ==
    IF cfg.includeEnsNames /\ ~cfg.provider /\ ~cfg.ensProvider
    THEN InvalidConfigError
    ELSE NoError

\* the fields the base constructors set from the configuration
BaseTransactions(transactionType, cfg) ==
    [transactionType |-> transactionType,
     chainId |-> cfg.chainId,
     provider |-> cfg.provider,
     ensProvider |-> cfg.ensProvider,
     signer |-> cfg.signer,
     includeEnsNames |-> cfg.includeEnsNames,
     shouldRequireSigner |-> ShouldRequireSigner(transactionType)]

\* an instance, or the error its constructor threw
Built(instance) == [ok |-> TRUE, instance |-> instance, error |-> NoError]

Thrown(error) == [ok |-> FALSE, instance |-> NoClient, error |-> error]

\* the instance built without the base constructor's check
TemplatesTransactionsNewUnchecked(transactionType, cfg) ==
    Built([contract |-> GetTransactionContract(transactionType)]
          @@ BaseTransactions(transactionType, cfg))

\* TemplatesTransactions.constructor: super(...), then the contract binding
TemplatesTransactionsNew(transactionType, cfg) ==
    IF BaseConfigError(cfg) # NoError
    THEN Thrown(BaseConfigError(cfg))
    ELSE Built([contract |-> GetTransactionContract(transactionType)]
               @@ BaseTransactions(transactionType, cfg))

\* the member built with the facade's transaction type
TemplatesCallDataNewAsTransaction(cfg) == TemplatesTransactionsNew("Transaction", cfg)

\* TemplatesCallData.constructor
TemplatesCallDataNew(cfg) == TemplatesTransactionsNew("CallData", cfg)

\* the member built with the facade's transaction type
TemplatesGasEstimatesNewAsTransaction(cfg) ==
    TemplatesTransactionsNew("Transaction", cfg)

\* TemplatesGasEstimates.constructor
TemplatesGasEstimatesNew(cfg) == TemplatesTransactionsNew("GasEstimate", cfg)

RecoupEventTopics == [createRecoup |-> <<"topic:CreateRecoup">>]

\* the constructor without its check of the chain id
TemplatesClientNewAnyChain(cfg) ==
    LET base == TemplatesTransactionsNew("Transaction", cfg)
        callData == TemplatesCallDataNew(cfg)
        estimateGas == TemplatesGasEstimatesNew(cfg)
    IN  IF ~base.ok THEN base
        ELSE Built([entity |-> "Templates",
                    eventTopics |-> RecoupEventTopics,
                    callData |-> callData.instance,
                    estimateGas |-> estimateGas.instance]
                   @@ base.instance)

\* TemplatesClient.constructor
TemplatesClientNew(cfg) ==
    LET base == TemplatesTransactionsNew("Transaction", cfg)
        callData == TemplatesCallDataNew(cfg)
        estimateGas == TemplatesGasEstimatesNew(cfg)
    IN  IF ~base.ok THEN base
        ELSE IF cfg.chainId \notin TEMPLATES_CHAIN_IDS
        THEN Thrown(UnsupportedChainIdError(cfg.chainId, TEMPLATES_CHAIN_IDS))
        ELSE IF ~callData.ok THEN callData
        ELSE IF ~estimateGas.ok THEN estimateGas
        ELSE Built([entity |-> "Templates",
                    eventTopics |-> RecoupEventTopics,
                    callData |-> callData.instance,
                    estimateGas |-> estimateGas.instance]
                   @@ base.instance)

SwapperWrites ==
    {"createSwapper", "setBeneficiary", "setTokenToBeneficiary", "setOracle",
     "setDefaultScaledOfferFactor", "setPaused", "execCalls"}

SwapperReads ==
    {"getBeneficiary", "getTokenToBeneficiary", "getOracle",
     "getDefaultScaledOfferFactor"}

SwapperEventTopics ==
    [createSwapper |-> <<"topic:CreateSwapper">>,
     setBeneficiary |-> <<"topic:SetBeneficiary">>,
     setTokenToBeneficiary |-> <<"topic:SetTokenToBeneficiary">>,
     setOracle |-> <<"topic:SetOracle">>,
     setDefaultScaledOfferFactor |-> <<"topic:SetDefaultScaledOfferFactor">>,
     setPaused |-> <<"topic:SetPaused">>,
     execCalls |-> <<"topic:ExecCalls">>]

\* the constructor of one of the three Swapper classes
SwapperTransactionsNew(transactionType, cfg) ==
    IF BaseConfigError(cfg) # NoError
    THEN Thrown(BaseConfigError(cfg))
    ELSE Built([contract |-> GetTransactionContract(transactionType)]
               @@ BaseTransactions(transactionType, cfg))

\* SwapperClient.constructor
SwapperClientNew(cfg) ==
    LET base == SwapperTransactionsNew("Transaction", cfg)
        callData == SwapperTransactionsNew("CallData", cfg)
        estimateGas == SwapperTransactionsNew("GasEstimate", cfg)
    IN  IF ~base.ok THEN base
        ELSE IF cfg.chainId \notin SWAPPER_CHAIN_IDS
        THEN Thrown(UnsupportedChainIdError(cfg.chainId, SWAPPER_CHAIN_IDS))
        ELSE Built([entity |-> "Swapper",
                    eventTopics |-> SwapperEventTopics,
                    callData |-> callData.instance,
                    estimateGas |-> estimateGas.instance]
                   @@ base.instance)

----------------------------------------------------------------------------
(* Validation and the prerequisites of a call *)

IsAddress(a) == a \in {AddressZero, "0xA"}

\* validateAddress(address), for the field it is called on
ValidateAddress(field, a) ==
    IF IsAddress(a) THEN NoError ELSE ValidationError(field)

\* validateRecoupTranches(tranches): every tranche names a recipient address
ValidateRecoupTranches(tranches) ==
    IF \A i \in 1..Len(tranches) : IsAddress(tranches[i])
    THEN NoError
    ELSE ValidationError("tranches")

\* validateRecoupNonWaterfallRecipient(numTranches, address, trancheIndex):
\* the index is undefined exactly when the address is the zero sentinel, and
\* is a tranche index otherwise
ValidateRecoupNonWaterfallRecipient(numTranches, address, trancheIndex) ==
    IF address = AddressZero
    THEN IF trancheIndex = UndefinedIndex
         THEN NoError
         ELSE InvalidArgumentError("nonWaterfallRecipientTrancheIndex")
    ELSE IF trancheIndex \in 0..(numTranches - 1)
         THEN NoError
         ELSE InvalidArgumentError("nonWaterfallRecipientTrancheIndex")

\* BaseClient._requireProvider
RequireProvider(self) ==
    IF self.provider THEN NoError ELSE MissingProviderError

\* BaseClient._requireSigner
RequireSigner(self) ==
    IF self.signer THEN NoError ELSE MissingSignerError

Check(name, error) == [check |-> name, error |-> error]

\* the index of the first check that throws, 0 when none does
FirstFailure(checks) ==
    LET failing == {i \in 1..Len(checks) : checks[i].error # NoError}
    IN  IF failing = {} THEN 0
        ELSE CHOOSE i \in failing : \A j \in failing : i <= j

\* the checks that ran, and what the first failing one threw
RunChecks(checks) ==
    LET k == FirstFailure(checks)
        n == IF k = 0 THEN Len(checks) ELSE k
    IN  [ran |-> [i \in 1..n |-> checks[i].check],
         error |-> IF k = 0 THEN NoError ELSE checks[k].error]

\* a parameter's default: `= AddressZero`, `= undefined`
WithDefaults(args) ==
    [args EXCEPT !.nonWaterfallRecipientAddress =
                     IF @ = Omitted THEN AddressZero ELSE @]

\* the tranche list left unvalidated
CreateRecoupChecksNoTranches(self, args) ==
    <<Check("validateAddress(token)", ValidateAddress("token", args.token)),
      Check("validateAddress(nonWaterfallRecipientAddress)",
            ValidateAddress("nonWaterfallRecipientAddress",
                            args.nonWaterfallRecipientAddress)),
      Check("validateRecoupNonWaterfallRecipient",
            ValidateRecoupNonWaterfallRecipient(
                Len(args.tranches),
                args.nonWaterfallRecipientAddress,
                args.nonWaterfallRecipientTrancheIndex)),
      Check("_requireProvider", RequireProvider(self)),
      Check("if (!this._provider)",
            IF self.provider THEN NoError ELSE ProviderRequired)>>
    \o (IF self.shouldRequireSigner
        THEN <<Check("_requireSigner", RequireSigner(self))>>
        ELSE <<>>)

\* the signer asked for before the provider
CreateRecoupChecksSignerFirst(self, args) ==
    <<Check("validateAddress(token)", ValidateAddress("token", args.token)),
      Check("validateAddress(nonWaterfallRecipientAddress)",
            ValidateAddress("nonWaterfallRecipientAddress",
                            args.nonWaterfallRecipientAddress)),
      Check("validateRecoupTranches", ValidateRecoupTranches(args.tranches)),
      Check("validateRecoupNonWaterfallRecipient",
            ValidateRecoupNonWaterfallRecipient(
                Len(args.tranches),
                args.nonWaterfallRecipientAddress,
                args.nonWaterfallRecipientTrancheIndex))>>
    \o (IF self.shouldRequireSigner
        THEN <<Check("_requireSigner", RequireSigner(self))>>
        ELSE <<>>)
    \o <<Check("_requireProvider", RequireProvider(self)),
         Check("if (!this._provider)",
               IF self.provider THEN NoError ELSE ProviderRequired)>>

\* the signer asked for in every mode
CreateRecoupChecksSignerAlways(self, args) ==
    <<Check("validateAddress(token)", ValidateAddress("token", args.token)),
      Check("validateAddress(nonWaterfallRecipientAddress)",
            ValidateAddress("nonWaterfallRecipientAddress",
                            args.nonWaterfallRecipientAddress)),
      Check("validateRecoupTranches", ValidateRecoupTranches(args.tranches)),
      Check("validateRecoupNonWaterfallRecipient",
            ValidateRecoupNonWaterfallRecipient(
                Len(args.tranches),
                args.nonWaterfallRecipientAddress,
                args.nonWaterfallRecipientTrancheIndex)),
      Check("_requireProvider", RequireProvider(self)),
      Check("if (!this._provider)",
            IF self.provider THEN NoError ELSE ProviderRequired),
      Check("_requireSigner", RequireSigner(self))>>

\* the cross-field rule given one tranche too many
CreateRecoupChecksOneTrancheMore(self, args) ==
    <<Check("validateAddress(token)", ValidateAddress("token", args.token)),
      Check("validateAddress(nonWaterfallRecipientAddress)",
            ValidateAddress("nonWaterfallRecipientAddress",
                            args.nonWaterfallRecipientAddress)),
      Check("validateRecoupTranches", ValidateRecoupTranches(args.tranches)),
      Check("validateRecoupNonWaterfallRecipient",
            ValidateRecoupNonWaterfallRecipient(
                Len(args.tranches) + 1,
                args.nonWaterfallRecipientAddress,
                args.nonWaterfallRecipientTrancheIndex)),
      Check("_requireProvider", RequireProvider(self)),
      Check("if (!this._provider)",
            IF self.provider THEN NoError ELSE ProviderRequired)>>
    \o (IF self.shouldRequireSigner
        THEN <<Check("_requireSigner", RequireSigner(self))>>
        ELSE <<>>)

\* the provider asked for before the arguments are validated
CreateRecoupChecksProviderFirst(self, args) ==
    <<Check("_requireProvider", RequireProvider(self)),
      Check("if (!this._provider)",
            IF self.provider THEN NoError ELSE ProviderRequired),
      Check("validateAddress(token)", ValidateAddress("token", args.token)),
      Check("validateAddress(nonWaterfallRecipientAddress)",
            ValidateAddress("nonWaterfallRecipientAddress",
                            args.nonWaterfallRecipientAddress)),
      Check("validateRecoupTranches", ValidateRecoupTranches(args.tranches)),
      Check("validateRecoupNonWaterfallRecipient",
            ValidateRecoupNonWaterfallRecipient(
                Len(args.tranches),
                args.nonWaterfallRecipientAddress,
                args.nonWaterfallRecipientTrancheIndex))>>
    \o (IF self.shouldRequireSigner
        THEN <<Check("_requireSigner", RequireSigner(self))>>
        ELSE <<>>)

\* _createRecoupTransaction, up to its first await: the checks in the order
\* the code makes them
CreateRecoupChecks(self, args) ==
    <<Check("validateAddress(token)", ValidateAddress("token", args.token)),
      Check("validateAddress(nonWaterfallRecipientAddress)",
            ValidateAddress("nonWaterfallRecipientAddress",
                            args.nonWaterfallRecipientAddress)),
      Check("validateRecoupTranches", ValidateRecoupTranches(args.tranches)),
      Check("validateRecoupNonWaterfallRecipient",
            ValidateRecoupNonWaterfallRecipient(
                Len(args.tranches),
                args.nonWaterfallRecipientAddress,
                args.nonWaterfallRecipientTrancheIndex)),
      Check("_requireProvider", RequireProvider(self)),
      Check("if (!this._provider)",
            IF self.provider THEN NoError ELSE ProviderRequired)>>
    \o (IF self.shouldRequireSigner
        THEN <<Check("_requireSigner", RequireSigner(self))>>
        ELSE <<>>)

----------------------------------------------------------------------------
(* The collaborators: token lookup, contract, transaction receipt *)

\* decimals of the token, as the provider reports them
TokenDecimals == {6, 18}

\* getRecoupTranchesAndSizes: the tranches in the contract's tuple shape and
\* the tranche sizes scaled by the token's decimals
GetRecoupTranchesAndSizes(chainId, token, tranches, decimals) ==
    [ok |-> TRUE,
     recoupTranches |-> [i \in 1..Len(tranches) |-> <<tranches[i]>>],
     trancheSizes |-> [i \in 1..(Len(tranches) - 1) |->
                          [tranche |-> i, decimals |-> decimals]]]

\* a pending transaction: an object with a wait()
TxResponse == [wait |-> "wait", value |-> "create_recoup_tx"]

\* an estimate: a BigNumber
GasResponse == [isBigNumber |-> TRUE, hex |-> "0x5208"]

\* what ContractCallData returns: the target and the encoded call
CallDataResponse(chainId, method, args) ==
    [address |-> <<"deployed", chainId>>, value |-> 0, data |-> <<method, args>>]

\* BaseTransactions._isContractTransaction: 'wait' in txn
IsContractTransaction(r) == "wait" \in DOMAIN r

\* BaseTransactions._isBigNumber
IsBigNumber(r) == "isBigNumber" \in DOMAIN r

\* BaseTransactions._isCallData: neither a BigNumber nor a transaction
IsCallData(r) == ~IsBigNumber(r) /\ ~IsContractTransaction(r)

NoArgs == [decoded |-> FALSE]

EventArgs ==
    {NoArgs,
     [decoded |-> TRUE, waterfallModule |-> "0xW1", swapper |-> "0xS1"],
     [decoded |-> TRUE, waterfallModule |-> "0xW2", swapper |-> "0xS2"]}

OtherTopic == "topic:Other"

\* the logs of a mined transaction
LogInputs(topics) ==
    SeqsUpTo([topic : {topics[1], OtherTopic}, args : EventArgs], MaxLogs)

\* getTransactionEvents: the receipt's logs whose topic is one of the topics
GetTransactionEvents(logs, topics) ==
    SelectSeq(logs, LAMBDA l : \E i \in 1..Len(topics) : l.topic = topics[i])

----------------------------------------------------------------------------
(* Calls *)

NoValue == [none |-> TRUE]

Idle == [pc |-> "idle"]

\* the methods of the Templates facade and of its two members
TemplatesMethods ==
    {<<"client", "createRecoup">>,
     <<"client", "submitCreateRecoupTransaction">>,
     <<"estimateGas", "createRecoup">>,
     <<"callData", "createRecoup">>}

\* the instance a method runs on
Instance(variant) ==
    CASE variant = "callData" -> client.callData
      [] variant = "estimateGas" -> client.estimateGas
      [] OTHER -> client

CallOver == call.pc \in {"returned", "threw"}

\* a call as it starts
NewCall(variant, op, raw, args) ==
    [pc |-> "start", variant |-> variant, op |-> op, raw |-> raw, args |-> args,
     ran |-> <<>>, net |-> <<>>, contractCalls |-> <<>>, extractorCalls |-> <<>>,
     lookup |-> NoValue, response |-> NoValue, mined |-> FALSE, logs |-> <<>>,
     events |-> <<>>,
     rejection |-> NoError, resumed |-> FALSE,
     result |-> NoValue, error |-> NoError]

Throw(c, error) == [c EXCEPT !.pc = "threw", !.error = error]

\* an awaited network step rejects: there is no try/catch around any await,
\* so the rejection is what the call throws
Reject(c, rejection) == Throw([c EXCEPT !.rejection = rejection], rejection)

Return(c, result) == [c EXCEPT !.pc = "returned", !.result = result]

\* TemplatesClient.createRecoup and submitCreateRecoupTransaction: the
\* arguments handed to _createRecoupTransaction
ClientCreateRecoupArgs(raw) == WithDefaults(raw)

\* only the required arguments handed on
GasEstimatesCreateRecoupArgsRequiredOnly(raw) ==
    [raw EXCEPT !.nonWaterfallRecipientAddress = AddressZero,
                !.nonWaterfallRecipientTrancheIndex = UndefinedIndex]

\* TemplatesGasEstimates.createRecoup: the same
GasEstimatesCreateRecoupArgs(raw) == WithDefaults(raw)

\* TemplatesCallData.createRecoup: the same
CallDataCreateRecoupArgs(raw) == WithDefaults(raw)

EntryArgs(variant, raw) ==
    CASE variant = "callData" -> CallDataCreateRecoupArgs(raw)
      [] variant = "estimateGas" -> GasEstimatesCreateRecoupArgs(raw)
      [] OTHER -> ClientCreateRecoupArgs(raw)

\* _createRecoupTransaction from its entry to the await of
\* getRecoupTranchesAndSizes: the checks, then the lookup through the provider
CreateRecoupTransactionBegin(self, c) ==
    LET args == WithDefaults(c.args)
        run == RunChecks(CreateRecoupChecks(self, args))
        checked == [c EXCEPT !.ran = run.ran]
    IN  IF run.error # NoError
        THEN Throw(checked, run.error)
        ELSE [checked EXCEPT !.pc = "lookup", !.net = Append(@, "query")]

\* a method of the Templates client is called
CallCreateRecoup(variant, op, raw) ==
    /\ client # NoClient
    /\ client.entity = "Templates"
    /\ call = Idle
    /\ call' = CreateRecoupTransactionBegin(
                   Instance(variant),
                   NewCall(variant, op, raw, EntryArgs(variant, raw)))
    /\ UNCHANGED <<config, client, ctorError, pending, form>>

\* what the contract binding does on the network when it is called
ContractNet(contract) ==
    CASE contract = "Contract" -> <<"submit">>
      [] contract = "estimateGas" -> <<"simulate">>
      [] OTHER -> <<>>

\* _createRecoupTransaction after the lookup: the call of the contract
CreateRecoupTransactionCall(self, c, found) ==
    LET args == WithDefaults(c.args)
    IN  [c EXCEPT
            !.pc = "contract",
            !.lookup = found,
            !.contractCalls =
                Append(@, [contract |-> self.contract,
                           method |-> "createRecoup",
                           args |-> <<args.token,
                                      args.nonWaterfallRecipientAddress,
                                      args.nonWaterfallRecipientTrancheIndex,
                                      found.recoupTranches,
                                      found.trancheSizes>>]),
            !.net = @ \o ContractNet(self.contract)]

\* the lookup's continuation rebinding the instance's contract
LookupSettlesRebindsContract ==
    /\ call.pc = "lookup"
    /\ \E decimals \in TokenDecimals :
          LET self == Instance(call.variant)
              found == GetRecoupTranchesAndSizes(self.chainId, call.args.token,
                                                 call.args.tranches, decimals)
          IN  call' = CreateRecoupTransactionCall(self, call, found)
    /\ client' = [client EXCEPT !.contract = "estimateGas"]
    /\ UNCHANGED <<config, ctorError, pending, form>>

\* getRecoupTranchesAndSizes resolves, for some decimals of the token
LookupSettles ==
    /\ call.pc = "lookup"
    /\ \E decimals \in TokenDecimals :
          LET self == Instance(call.variant)
              found == GetRecoupTranchesAndSizes(self.chainId, call.args.token,
                                                 call.args.tranches, decimals)
          IN  call' = CreateRecoupTransactionCall(self, call, found)
    /\ UNCHANGED <<config, client, ctorError, pending, form>>

\* getRecoupTranchesAndSizes is rejected by the provider
LookupRejects ==
    /\ call.pc = "lookup"
    /\ call' = Reject(call, NetworkError("getRecoupTranchesAndSizes"))
    /\ UNCHANGED <<config, client, ctorError, pending, form>>

\* TemplatesClient.submitCreateRecoupTransaction on the dispatch's result
SubmitCreateRecoupTransaction(c, r) ==
    IF ~IsContractTransaction(r)
    THEN Throw(c, InvalidResponse)
    ELSE Return(c, [tx |-> r])

\* the extractor invoked a second time
ClientCreateRecoupExtractsTwice(c, r) ==
    LET submitted == SubmitCreateRecoupTransaction(c, r)
        extraction == [tx |-> submitted.result.tx,
                       topics |-> client.eventTopics.createRecoup]
    IN  IF submitted.pc = "threw" THEN submitted
        ELSE [c EXCEPT
                !.pc = "events",
                !.extractorCalls = @ \o <<extraction, extraction>>,
                !.net = Append(@, "wait")]

\* TemplatesClient.createRecoup on the dispatch's result: submit, then the
\* await of getTransactionEvents
ClientCreateRecoup(c, r) ==
    LET submitted == SubmitCreateRecoupTransaction(c, r)
    IN  IF submitted.pc = "threw" THEN submitted
        ELSE [c EXCEPT
                !.pc = "events",
                !.extractorCalls =
                    Append(@, [tx |-> submitted.result.tx,
                               topics |-> client.eventTopics.createRecoup]),
                !.net = Append(@, "wait")]

\* the estimate handed back unchecked
GasEstimatesCreateRecoupUnchecked(c, r) == Return(c, r)

\* TemplatesGasEstimates.createRecoup on the dispatch's result
GasEstimatesCreateRecoup(c, r) ==
    IF ~IsBigNumber(r) THEN Throw(c, InvalidResponse) ELSE Return(c, r)

\* TemplatesCallData.createRecoup on the dispatch's result
CallDataCreateRecoup(c, r) ==
    IF ~IsCallData(r) THEN Throw(c, InvalidResponse) ELSE Return(c, r)

\* what the contract call may settle to
ContractResponses(self, c) ==
    {TxResponse, GasResponse,
     CallDataResponse(self.chainId, c.contractCalls[1].method,
                      c.contractCalls[1].args)}

\* the contract's createRecoup settles with a response
ContractSettles ==
    /\ call.pc = "contract"
    /\ call.op \in {"createRecoup", "submitCreateRecoupTransaction"}
    /\ \E r \in ContractResponses(Instance(call.variant), call) :
          LET c == [call EXCEPT !.response = r]
          IN  call' = CASE call.variant = "callData" -> CallDataCreateRecoup(c, r)
                        [] call.variant = "estimateGas" ->
                               GasEstimatesCreateRecoup(c, r)
                        [] call.op = "submitCreateRecoupTransaction" ->
                               SubmitCreateRecoupTransaction(c, r)
                        [] OTHER -> ClientCreateRecoup(c, r)
    /\ UNCHANGED <<config, client, ctorError, pending, form>>

\* the rejected contract call made a second time
ContractRejectsThenRetries ==
    /\ call.pc = "contract"
    /\ call.op \in {"createRecoup", "submitCreateRecoupTransaction"}
    /\ Instance(call.variant).contract # "ContractCallData"
    /\ call' = IF Len(call.contractCalls) = 1
               THEN [call EXCEPT
                       !.rejection = NetworkError("contract"),
                       !.contractCalls = Append(@, @[1]),
                       !.net = @ \o ContractNet(Instance(call.variant).contract)]
               ELSE Reject(call, NetworkError("contract"))
    /\ UNCHANGED <<config, client, ctorError, pending, form>>

\* the contract call is rejected by the network
ContractRejects ==
    /\ call.pc = "contract"
    /\ call.op \in {"createRecoup", "submitCreateRecoupTransaction"}
    /\ Instance(call.variant).contract # "ContractCallData"
    /\ call' = Reject(call, NetworkError("contract"))
    /\ UNCHANGED <<config, client, ctorError, pending, form>>

\* no event: an id-less result handed back instead of the failure
CreateRecoupResultPartial(c, events) ==
    LET event == IF Len(events) > 0 THEN events[1] ELSE NoValue
    IN  IF event # NoValue /\ event.args # NoArgs
        THEN Return(c, [waterfallModuleId |-> event.args.waterfallModule,
                        event |-> event])
        ELSE Return(c, [waterfallModuleId |-> "undefined", event |-> event])

\* the last of the events taken, not the first
CreateRecoupResultLast(c, events) ==
    LET event == IF Len(events) > 0 THEN events[Len(events)] ELSE NoValue
    IN  IF event # NoValue /\ event.args # NoArgs
        THEN Return(c, [waterfallModuleId |-> event.args.waterfallModule,
                        event |-> event])
        ELSE Throw(c, TransactionFailedError)

\* TemplatesClient.createRecoup on the events of the mined transaction
CreateRecoupResult(c, events) ==
    LET event == IF Len(events) > 0 THEN events[1] ELSE NoValue
    IN  IF event # NoValue /\ event.args # NoArgs
        THEN Return(c, [waterfallModuleId |-> event.args.waterfallModule,
                        event |-> event])
        ELSE Throw(c, TransactionFailedError)

\* the transaction is mined and getTransactionEvents settles
EventsSettle ==
    /\ call.pc = "events"
    /\ call.op = "createRecoup"
    /\ \E logs \in LogInputs(call.extractorCalls[1].topics) :
          LET events == GetTransactionEvents(logs, call.extractorCalls[1].topics)
              c == [call EXCEPT !.mined = TRUE, !.logs = logs, !.events = events]
          IN  call' = CreateRecoupResult(c, events)
    /\ UNCHANGED <<config, client, ctorError, pending, form>>

\* waiting for the transaction fails
EventsReject ==
    /\ call.pc = "events"
    /\ call.op = "createRecoup"
    /\ call' = Reject(call, NetworkError("getTransactionEvents"))
    /\ UNCHANGED <<config, client, ctorError, pending, form>>

----------------------------------------------------------------------------
(* The Swapper client: the same pipeline, its arguments taken as valid or not *)

\* the most calls handed to execCalls, and the most overrides to createSwapper
MaxCalls == 2

\* the fixed-point precision: parts per million
PERCENTAGE_SCALE == 1000000

\* the percentages a caller gives
PercentInputs == {1, 50}

\* a ScaledOfferFactorOverride as the caller names it
OverrideInputs ==
    [baseToken : {"0xbase"}, quoteToken : {"0xquote"},
     scaledOfferFactorPercent : PercentInputs]

\* a call of execCalls as the caller names it
ExecCallInputs == [to : {"0xaddress", "0xother"}, value : {1}, data : {"0x0"}]

\* the arguments of a Swapper write, as the caller names them; valid says
\* whether the validators accept them
SwapperWriteInputs(op) ==
    CASE op = "createSwapper" ->
           [valid : BOOLEAN, owner : {"0xowner"}, paused : {FALSE},
            beneficiary : {"0xbeneficiary"}, tokenToBeneficiary : {"0xtoken"},
            oracleParams : [address : {"0xoracle"}],
            defaultScaledOfferFactorPercent : PercentInputs,
            scaledOfferFactorOverrides : {<<>>} \cup SeqsUpTo(OverrideInputs, 1)]
      [] op = "setBeneficiary" ->
           [valid : BOOLEAN, swapperId : {"0xswapper"},
            beneficiary : {"0xbeneficiary"}]
      [] op = "setTokenToBeneficiary" ->
           [valid : BOOLEAN, swapperId : {"0xswapper"},
            tokenToBeneficiary : {"0xtoken"}]
      [] op = "setOracle" ->
           [valid : BOOLEAN, swapperId : {"0xswapper"}, oracle : {"0xoracle"}]
      [] op = "setDefaultScaledOfferFactor" ->
           [valid : BOOLEAN, swapperId : {"0xswapper"},
            defaultScaledOfferFactorPercent : PercentInputs]
      [] op = "setPaused" ->
           [valid : BOOLEAN, swapperId : {"0xswapper"}, paused : BOOLEAN]
      [] OTHER ->
           [valid : BOOLEAN, swapperId : {"0xswapper"},
            calls : {<<>>} \cup SeqsUpTo(ExecCallInputs, MaxCalls)]

\* getFormattedOracleParams: the named fields in the contract's positional shape
GetFormattedOracleParams(oracleParams) == <<oracleParams.address>>

\* getFormattedScaledOfferFactor: the percentage at fixed-point precision
GetFormattedScaledOfferFactor(percent) == (percent * PERCENTAGE_SCALE) \div 100

\* getFormattedScaledOfferFactorOverrides: each override as a positional pair
\* of its token pair and its formatted factor, in the order given
GetFormattedScaledOfferFactorOverrides(overrides) ==
    [i \in 1..Len(overrides) |->
        <<<<overrides[i].baseToken, overrides[i].quoteToken>>,
          GetFormattedScaledOfferFactor(overrides[i].scaledOfferFactorPercent)>>]

\* transactionOverrides when the caller gives none: {}
NoTransactionOverrides == [transactionOverrides |-> {}]

\* the percentage handed on as given
SwapperWriteArgsUnformatted(op, raw) ==
    CASE op = "createSwapper" ->
           <<<<raw.owner, raw.paused, raw.beneficiary, raw.tokenToBeneficiary,
               GetFormattedOracleParams(raw.oracleParams),
               raw.defaultScaledOfferFactorPercent,
               GetFormattedScaledOfferFactorOverrides(
                   raw.scaledOfferFactorOverrides)>>,
             NoTransactionOverrides>>
      [] op = "setBeneficiary" -> <<raw.beneficiary, NoTransactionOverrides>>
      [] op = "setTokenToBeneficiary" ->
           <<raw.tokenToBeneficiary, NoTransactionOverrides>>
      [] op = "setOracle" -> <<raw.oracle, NoTransactionOverrides>>
      [] op = "setDefaultScaledOfferFactor" ->
           <<raw.defaultScaledOfferFactorPercent, NoTransactionOverrides>>
      [] op = "setPaused" -> <<raw.paused, NoTransactionOverrides>>
      [] OTHER ->
           <<[i \in 1..Len(raw.calls) |->
                 <<raw.calls[i].to, raw.calls[i].value, raw.calls[i].data>>],
             NoTransactionOverrides>>

\* what a Swapper write hands the contract's write: its arguments in the
\* contract's order, formatted, then the transaction overrides
SwapperWriteArgs(op, raw) ==
    CASE op = "createSwapper" ->
           <<<<raw.owner, raw.paused, raw.beneficiary, raw.tokenToBeneficiary,
               GetFormattedOracleParams(raw.oracleParams),
               GetFormattedScaledOfferFactor(
                   raw.defaultScaledOfferFactorPercent),
               GetFormattedScaledOfferFactorOverrides(
                   raw.scaledOfferFactorOverrides)>>,
             NoTransactionOverrides>>
      [] op = "setBeneficiary" -> <<raw.beneficiary, NoTransactionOverrides>>
      [] op = "setTokenToBeneficiary" ->
           <<raw.tokenToBeneficiary, NoTransactionOverrides>>
      [] op = "setOracle" -> <<raw.oracle, NoTransactionOverrides>>
      [] op = "setDefaultScaledOfferFactor" ->
           <<GetFormattedScaledOfferFactor(raw.defaultScaledOfferFactorPercent),
             NoTransactionOverrides>>
      [] op = "setPaused" -> <<raw.paused, NoTransactionOverrides>>
      [] OTHER ->
           <<[i \in 1..Len(raw.calls) |->
                 <<raw.calls[i].to, raw.calls[i].value, raw.calls[i].data>>],
             NoTransactionOverrides>>

\* a Swapper write up to its await: the validators, the provider, the signer
SwapperWriteChecks(self, op, valid) ==
    <<Check("validate", IF valid THEN NoError ELSE ValidationError(op)),
      Check("_requireProvider", RequireProvider(self))>>
    \o (IF self.shouldRequireSigner
        THEN <<Check("_requireSigner", RequireSigner(self))>>
        ELSE <<>>)

\* a Swapper read up to its await: the validators, the provider
SwapperReadChecks(self, op, valid) ==
    <<Check("validate", IF valid THEN NoError ELSE ValidationError(op)),
      Check("_requireProvider", RequireProvider(self))>>

\* a write method of the Swapper facade or of one of its members is called
CallSwapperWrite(variant, op, raw) ==
    /\ client # NoClient
    /\ client.entity = "Swapper"
    /\ call = Idle
    /\ LET self == Instance(variant)
           c == NewCall(variant, op, raw, raw)
           run == RunChecks(SwapperWriteChecks(self, op, raw.valid))
           checked == [c EXCEPT !.ran = run.ran]
       IN  call' = IF run.error # NoError
                   THEN Throw(checked, run.error)
                   ELSE [checked EXCEPT
                            !.pc = "contract",
                            !.contractCalls =
                                Append(@, [contract |-> self.contract,
                                           method |-> op,
                                           args |-> SwapperWriteArgs(op, raw)]),
                            !.net = @ \o ContractNet(self.contract)]
    /\ UNCHANGED <<config, client, ctorError, pending, form>>

\* the Swapper contract's write settles with a response
SwapperContractSettles ==
    /\ call.pc = "contract"
    /\ call.op \in SwapperWrites
    /\ \E r \in ContractResponses(Instance(call.variant), call) :
          LET c == [call EXCEPT !.response = r]
          IN  call' =
                CASE call.variant = "callData" ->
                       IF ~IsCallData(r) THEN Throw(c, InvalidResponse)
                       ELSE Return(c, r)
                  [] call.variant = "estimateGas" ->
                       IF ~IsBigNumber(r) THEN Throw(c, InvalidResponse)
                       ELSE Return(c, r)
                  [] OTHER ->
                       IF ~IsContractTransaction(r) THEN Throw(c, InvalidResponse)
                       ELSE [c EXCEPT
                               !.pc = "events",
                               !.extractorCalls =
                                   Append(@, [tx |-> r,
                                              topics |-> client.eventTopics[call.op]]),
                               !.net = Append(@, "wait")]
    /\ UNCHANGED <<config, client, ctorError, pending, form>>

\* the Swapper contract's write is rejected by the network
SwapperContractRejects ==
    /\ call.pc = "contract"
    /\ call.op \in SwapperWrites
    /\ Instance(call.variant).contract # "ContractCallData"
    /\ call' = Reject(call, NetworkError("contract"))
    /\ UNCHANGED <<config, client, ctorError, pending, form>>

\* a Swapper write on the events of the mined transaction
SwapperWriteResult(c, events) ==
    LET event == IF Len(events) > 0 THEN events[1] ELSE NoValue
    IN  IF c.op = "createSwapper"
        THEN IF event # NoValue /\ event.args # NoArgs
             THEN Return(c, [swapperId |-> event.args.swapper, event |-> event])
             ELSE Throw(c, TransactionFailedError)
        ELSE IF event # NoValue
             THEN Return(c, [event |-> event])
             ELSE Throw(c, TransactionFailedError)

\* the Swapper transaction is mined and getTransactionEvents settles
SwapperEventsSettle ==
    /\ call.pc = "events"
    /\ call.op \in SwapperWrites
    /\ \E logs \in LogInputs(call.extractorCalls[1].topics) :
          LET events == GetTransactionEvents(logs, call.extractorCalls[1].topics)
              c == [call EXCEPT !.mined = TRUE, !.logs = logs, !.events = events]
          IN  call' = SwapperWriteResult(c, events)
    /\ UNCHANGED <<config, client, ctorError, pending, form>>

\* waiting for the Swapper transaction fails
SwapperEventsReject ==
    /\ call.pc = "events"
    /\ call.op \in SwapperWrites
    /\ call' = Reject(call, NetworkError("getTransactionEvents"))
    /\ UNCHANGED <<config, client, ctorError, pending, form>>

\* a read method of the Swapper facade is called
CallSwapperRead(op, valid) ==
    /\ client # NoClient
    /\ client.entity = "Swapper"
    /\ call = Idle
    /\ LET c == NewCall("client", op, [valid |-> valid], [valid |-> valid])
           run == RunChecks(SwapperReadChecks(client, op, valid))
           checked == [c EXCEPT !.ran = run.ran]
       IN  call' = IF run.error # NoError
                   THEN Throw(checked, run.error)
                   ELSE [checked EXCEPT !.pc = "read", !.net = Append(@, "query")]
    /\ UNCHANGED <<config, client, ctorError, pending, form>>

\* the read settles with the contract's value
SwapperReadSettles ==
    /\ call.pc = "read"
    /\ call' = Return(call, [value |-> <<call.op, "value">>])
    /\ UNCHANGED <<config, client, ctorError, pending, form>>

\* the read is rejected by the network
SwapperReadRejects ==
    /\ call.pc = "read"
    /\ call' = Reject(call, NetworkError("read"))
    /\ UNCHANGED <<config, client, ctorError, pending, form>>

\* the caller has the call's result or error, and is free to call again
CallerContinues ==
    /\ CallOver
    /\ call' = Idle
    /\ UNCHANGED <<config, client, ctorError, pending, form>>

NoConfig == [given |-> FALSE]

NoForm == [mounted |-> FALSE]


Init ==
    /\ config = NoConfig
    /\ client = NoClient
    /\ ctorError = NoError
    /\ call = Idle
    /\ pending = <<>>
    /\ form = NoForm

\* new TemplatesClient(cfg)
NewTemplatesClient(cfg) ==
    /\ client = NoClient
    /\ ctorError = NoError
    /\ LET made == TemplatesClientNew(cfg)
       IN  /\ config' = [entity |-> "Templates"] @@ cfg
           /\ client' = made.instance
           /\ ctorError' = made.error
    /\ UNCHANGED <<call, pending, form>>

\* new SwapperClient(cfg)
NewSwapperClient(cfg) ==
    /\ client = NoClient
    /\ ctorError = NoError
    /\ LET made == SwapperClientNew(cfg)
       IN  /\ config' = [entity |-> "Swapper"] @@ cfg
           /\ client' = made.instance
           /\ ctorError' = made.error
    /\ UNCHANGED <<call, pending, form>>

Variants == {"client", "estimateGas", "callData"}

Next ==
    \/ \E cfg \in ConfigInputs : NewTemplatesClient(cfg)
    \/ \E cfg \in ConfigInputs : NewSwapperClient(cfg)
    \/ \E v \in Variants, op \in SwapperWrites :
           \E raw \in SwapperWriteInputs(op) : CallSwapperWrite(v, op, raw)
    \/ SwapperContractSettles
    \/ SwapperContractRejects
    \/ SwapperEventsSettle
    \/ SwapperEventsReject
    \/ \E op \in SwapperReads, valid \in BOOLEAN : CallSwapperRead(op, valid)
    \/ SwapperReadSettles
    \/ SwapperReadRejects
    \/ \E m \in TemplatesMethods, raw \in CreateRecoupInputs :
           CallCreateRecoup(m[1], m[2], raw)
    \/ LookupSettles
    \/ LookupRejects
    \/ ContractSettles
    \/ ContractRejects
    \/ EventsSettle
    \/ EventsReject
    \/ CallerContinues

Spec == Init /\ [][Next]_vars

----------------------------------------------------------------------------
(* Calls in flight together: the caller starts a call without awaiting the
   one before; each call runs until its next await and goes on when what it
   awaits settles *)

\* the most calls in flight at once
MaxInFlight == 2

\* the call is suspended at an await
Suspended(c) == c.pc \in {"lookup", "contract", "events", "read"}

Remove(seq, i) == SubSeq(seq, 1, i - 1) \o SubSeq(seq, i + 1, Len(seq))

\* the running call has reached an await and the caller, holding its promise,
\* is free to start another
AwaitSuspends ==
    /\ Suspended(call)
    /\ Len(pending) < MaxInFlight - 1
    /\ pending' = Append(pending, call)
    /\ call' = Idle
    /\ UNCHANGED <<config, client, ctorError, form>>

\* what the i-th suspended call awaits is about to settle: it is the call
\* that goes on, the running one (if any) staying suspended at its await
Resumes(i) ==
    /\ i \in 1..Len(pending)
    /\ call = Idle \/ Suspended(call)
    /\ call' = [pending[i] EXCEPT !.resumed = TRUE]
    /\ pending' = IF call = Idle THEN Remove(pending, i)
                  ELSE [pending EXCEPT ![i] = call]
    /\ UNCHANGED <<config, client, ctorError, form>>

\* the arguments of the calls made together
ConcurrentInputs ==
    {raw \in CreateRecoupInputs :
        /\ raw.token = "0xA"
        /\ raw.tranches = <<"0xA">>
        /\ \/ /\ raw.nonWaterfallRecipientAddress = Omitted
              /\ raw.nonWaterfallRecipientTrancheIndex = UndefinedIndex
           \/ /\ raw.nonWaterfallRecipientAddress = "0xA"
              /\ raw.nonWaterfallRecipientTrancheIndex = 0}

\* the configurations of the client they are made on
ConcurrentConfigs ==
    {cfg \in ConfigInputs :
        cfg.chainId = 1 /\ cfg.provider /\ ~cfg.ensProvider
        /\ ~cfg.includeEnsNames}

NextConcurrent ==
    \/ \E cfg \in ConcurrentConfigs : NewTemplatesClient(cfg)
    \/ \E m \in TemplatesMethods, raw \in ConcurrentInputs :
           CallCreateRecoup(m[1], m[2], raw)
    \/ LookupSettles
    \/ LookupRejects
    \/ ContractSettles
    \/ ContractRejects
    \/ EventsSettle
    \/ EventsReject
    \/ CallerContinues
    \/ AwaitSuspends
    \/ \E i \in 1..MaxInFlight : Resumes(i)

SpecConcurrent == Init /\ [][NextConcurrent]_vars

----------------------------------------------------------------------------
(* The create-split form. Percent allocations are JavaScript numbers: IEEE 754
   doubles, here a significand of DoublePrecision bits (most significant
   first) and the exponent of its last bit. *)

\* the significand of a double, in bits
DoublePrecision == 53

\* the most recipients of a split in the form
MaxRecipients == 3

\* the most submissions of the form in flight or done
MaxSubmits == 1

Zeros(n) == [i \in 1..n |-> 0]

\* the binary digits of a natural number, none for 0
RECURSIVE NatBits(_)
NatBits(n) == IF n = 0 THEN <<>> ELSE Append(NatBits(n \div 2), n % 2)

\* the first n binary digits of r/10 after the point (r < 10), after those in
\* bits, and what is left of r: the remainders r, 2r, 4r, 8r, 16r, ... of
\* the long division, taken modulo 10, recur with the powers 2, 4, 8, 6
TenthsBits(r, n, bits) ==
    LET power == <<2, 4, 8, 6>>
        left[k \in 0..n] ==
            IF k = 0 THEN r ELSE (r * power[((k - 1) % 4) + 1]) % 10
    IN  [bits |-> bits \o [k \in 1..n |-> IF 2 * left[k - 1] >= 10 THEN 1 ELSE 0],
         rem |-> left[n]]

\* bits without its leading zeros
StripZeros(bits) ==
    LET ones == {i \in 1..Len(bits) : bits[i] = 1}
    IN  IF ones = {} THEN <<>>
        ELSE SubSeq(bits, CHOOSE i \in ones : \A j \in ones : i <= j, Len(bits))

\* bits plus one: one bit longer when every bit is 1
Increment(bits) ==
    LET zeros == {i \in 1..Len(bits) : bits[i] = 0}
    IN  IF zeros = {} THEN <<1>> \o Zeros(Len(bits))
        ELSE LET k == CHOOSE i \in zeros : \A j \in zeros : j <= i
             IN  SubSeq(bits, 1, k - 1) \o <<1>> \o Zeros(Len(bits) - k)

DoubleZero == [bits |-> <<>>, exp |-> 0]

\* the double nearest to bits * 2^exp (plus a little, if inexact), ties to
\* the even significand; bits starts with a 1
RoundToDouble(bits, exp, inexact) ==
    IF Len(bits) <= DoublePrecision
    THEN [bits |-> bits \o Zeros(DoublePrecision - Len(bits)),
          exp |-> exp - (DoublePrecision - Len(bits))]
    ELSE LET kept == SubSeq(bits, 1, DoublePrecision)
             guard == bits[DoublePrecision + 1]
             sticky == inexact
                       \/ \E i \in (DoublePrecision + 2)..Len(bits) : bits[i] = 1
             e == exp + Len(bits) - DoublePrecision
             up == guard = 1 /\ (sticky \/ kept[DoublePrecision] = 1)
             raised == Increment(kept)
         IN  IF ~up THEN [bits |-> kept, exp |-> e]
             ELSE IF Len(raised) = DoublePrecision
             THEN [bits |-> raised, exp |-> e]
             ELSE [bits |-> SubSeq(raised, 1, DoublePrecision), exp |-> e + 1]

\* the number a decimal of one place denotes: the double nearest to tenths / 10
ToDouble(tenths) ==
    IF tenths = 0 THEN DoubleZero
    ELSE LET places == DoublePrecision + 5
             fraction == TenthsBits(tenths % 10, places,
                                    NatBits(tenths \div 10))
             bits == StripZeros(fraction.bits)
         IN  RoundToDouble(bits, -places, fraction.rem # 0)

\* the number whose eight binary digits end at position last of bits, those
\* before the first position being 0
Octet(bits, last) ==
    LET bit(i) == IF i >= 1 THEN bits[i] ELSE 0
    IN  128 * bit(last - 7) + 64 * bit(last - 6) + 32 * bit(last - 5)
        + 16 * bit(last - 4) + 8 * bit(last - 3) + 4 * bit(last - 2)
        + 2 * bit(last - 1) + bit(last)

\* the sum of two bit strings of one length, added octet by octet from the
\* right with the carry handed on, without leading zeros
AddBits(a, b) ==
    LET n == Len(a)
        octets == (n \div 8) + 1
        total[j \in 0..octets] ==
            IF j = 0 THEN 0
            ELSE Octet(a, n - 8 * (j - 1)) + Octet(b, n - 8 * (j - 1))
                 + (total[j - 1] \div 256)
        digit(p) ==
            LET j == (p \div 8) + 1
            IN  ((total[j] % 256) \div (2 ^ (p % 8))) % 2
    IN  StripZeros([i \in 1..(8 * octets) |-> digit(8 * octets - i)])

\* a + b in doubles: the exact sum, rounded once
DoubleAdd(a, b) ==
    IF a = DoubleZero THEN b
    ELSE IF b = DoubleZero THEN a
    ELSE LET hi == IF a.exp >= b.exp THEN a ELSE b
             lo == IF a.exp >= b.exp THEN b ELSE a
             d == hi.exp - lo.exp
         IN  RoundToDouble(AddBits(hi.bits \o Zeros(d), Zeros(d) \o lo.bits),
                           lo.exp, FALSE)

\* lodash sum: 0 for no numbers, else the numbers added from the left
RECURSIVE SumFrom(_, _, _)
SumFrom(numbers, i, result) ==
    IF i > Len(numbers) THEN result
    ELSE SumFrom(numbers, i + 1, DoubleAdd(result, numbers[i]))

sum(numbers) ==
    IF Len(numbers) = 0 THEN DoubleZero
    ELSE SumFrom(numbers, 2, numbers[1])

\* percent allocations, in tenths of a percent as they are written (33.4 is 334)
AllocationInputs == {333, 334, 1000}

\* watch('recipients'): the recipients' allocations
RecipientInputs == {<<>>} \cup SeqsUpTo(AllocationInputs, MaxRecipients)

\* useNetwork().chain: undefined, or the chain the wallet is on
ChainUndefined == [known |-> FALSE]

WalletChains == {ChainUndefined} \cup [known : {TRUE}, id : {1, 5}]

\* recipient.percentAllocation of every recipient, as numbers
PercentAllocations(recipients) ==
    [i \in 1..Len(recipients) |-> ToDouble(recipients[i])]

recipientAllocationTotal(f) == sum(PercentAllocations(f.recipients))

isFullyAllocated(f) == recipientAllocationTotal(f) = ToDouble(1000)

isWrongChain(f) == f.chain # ChainUndefined /\ f.chainId # f.chain.id

isButtonDisabled(f) ==
    ~f.isConnected \/ isWrongChain(f) \/ ~f.isFormValid \/ ~isFullyAllocated(f)

\* an Event of a mined transaction, with or without decoded args
SplitEvents ==
    {[args |-> NoValue], [args |-> [split |-> "0xS1"]],
     [args |-> [split |-> "0xS2"]]}

\* what createSplit resolves to: undefined, or the events of the transaction
CreateSplitResults ==
    {NoValue} \cup [events : {<<>>} \cup SeqsUpTo(SplitEvents, 2)]

\* the form is rendered, with its props and the state of its hooks
Mount(chainId, defaultRecipients, hasOnSuccess) ==
    /\ form = NoForm
    /\ form' = [mounted |-> TRUE, chainId |-> chainId,
                hasOnSuccess |-> hasOnSuccess,
                isConnected |-> FALSE, chain |-> ChainUndefined,
                isFormValid |-> FALSE, recipients |-> defaultRecipients,
                submits |-> <<>>]
    /\ UNCHANGED <<config, client, ctorError, call, pending>>

\* useAccount: the wallet connects or disconnects
AccountChanges(isConnected) ==
    /\ form.mounted
    /\ form' = [form EXCEPT !.isConnected = isConnected]
    /\ UNCHANGED <<config, client, ctorError, call, pending>>

\* useNetwork: the wallet's chain changes
NetworkChanges(chain) ==
    /\ form.mounted
    /\ form' = [form EXCEPT !.chain = chain]
    /\ UNCHANGED <<config, client, ctorError, call, pending>>

\* the recipients are edited; the form library revalidates
RecipientsChange(recipients, isValid) ==
    /\ form.mounted
    /\ form' = [form EXCEPT !.recipients = recipients, !.isFormValid = isValid]
    /\ UNCHANGED <<config, client, ctorError, call, pending>>

\* the enabled button is pressed: onSubmit up to its await of createSplit
PressSubmit ==
    /\ form.mounted
    /\ ~isButtonDisabled(form)
    /\ Len(form.submits) < MaxSubmits
    /\ form' = [form EXCEPT !.submits =
                   Append(@, [pc |-> "createSplit",
                              args |-> [recipients |-> form.recipients],
                              result |-> NoValue,
                              onSuccess |-> <<>>])]
    /\ UNCHANGED <<config, client, ctorError, call, pending>>

\* onSubmit after createSplit resolved: onSuccess, if there is one, is called
\* for a truthy result with the first event and its args.split
onSubmit(submit, result, hasOnSuccess) ==
    LET event == IF result # NoValue /\ Len(result.events) > 0
                 THEN result.events[1] ELSE NoValue
        splitId == IF event # NoValue /\ event.args # NoValue
                   THEN event.args.split ELSE "undefined"
    IN  [submit EXCEPT
            !.pc = "done", !.result = result,
            !.onSuccess = IF result # NoValue /\ hasOnSuccess
                          THEN Append(@, [splitId |-> splitId, event |-> event])
                          ELSE @]

\* createSplit resolves
CreateSplitSettles ==
    /\ form.mounted
    /\ \E i \in 1..Len(form.submits), result \in CreateSplitResults :
          /\ form.submits[i].pc = "createSplit"
          /\ form' = [form EXCEPT !.submits[i] =
                         onSubmit(@, result, form.hasOnSuccess)]
    /\ UNCHANGED <<config, client, ctorError, call, pending>>

\* createSplit rejects: onSubmit throws at its await
CreateSplitRejects ==
    /\ form.mounted
    /\ \E i \in 1..Len(form.submits) :
          /\ form.submits[i].pc = "createSplit"
          /\ form' = [form EXCEPT !.submits[i].pc = "threw"]
    /\ UNCHANGED <<config, client, ctorError, call, pending>>

NextForm ==
    \/ \E recipients \in RecipientInputs, hasOnSuccess \in BOOLEAN :
           Mount(1, recipients, hasOnSuccess)
    \/ \E isConnected \in BOOLEAN : AccountChanges(isConnected)
    \/ \E chain \in WalletChains : NetworkChanges(chain)
    \/ \E recipients \in RecipientInputs, isValid \in BOOLEAN :
           RecipientsChange(recipients, isValid)
    \/ PressSubmit
    \/ CreateSplitSettles
    \/ CreateSplitRejects

SpecForm == Init /\ [][NextForm]_vars

----------------------------------------------------------------------------
(* Properties *)

\* a call has been made (it is in progress or over)
Called == call # Idle

Constructed == client # NoClient

\* the chain ids the configured entity supports
SupportedBy(entity) ==
    IF entity = "Swapper" THEN SWAPPER_CHAIN_IDS ELSE TEMPLATES_CHAIN_IDS

IsCreateRecoup(c) == c.op \in {"createRecoup", "submitCreateRecoupTransaction"}

\* the arguments of createRecoup as the caller gave them, defaults filled in
GivenArgs(c) ==
    [c.raw EXCEPT !.nonWaterfallRecipientAddress =
                      IF @ = Omitted THEN AddressZero ELSE @]

\* the error of the first createRecoup validator that rejects the given
\* arguments, in the order token, recipient address, tranches, cross-field rule
FirstValidatorError(a) ==
    IF ~IsAddress(a.token) THEN ValidationError("token")
    ELSE IF ~IsAddress(a.nonWaterfallRecipientAddress)
    THEN ValidationError("nonWaterfallRecipientAddress")
    ELSE IF \E i \in 1..Len(a.tranches) : ~IsAddress(a.tranches[i])
    THEN ValidationError("tranches")
    ELSE ValidateRecoupNonWaterfallRecipient(
             Len(a.tranches), a.nonWaterfallRecipientAddress,
             a.nonWaterfallRecipientTrancheIndex)

\* the call was made with valid arguments
ValidArguments(c) ==
    IF IsCreateRecoup(c) THEN FirstValidatorError(GivenArgs(c)) = NoError
    ELSE c.raw.valid

\* the call is a mutation in Execute mode: a write method of the facade
ExecuteMutation(c) == c.variant = "client" /\ c.op \notin SwapperReads

\* C1: on a client constructed without a provider, every operation called
\* with valid arguments (the writes in each of the three modes and the reads)
\* fails with MissingProviderError, with or without a signer; so it never
\* fails with MissingSignerError, the provider being checked first.
C1_NoProviderFails ==
    (Constructed /\ Called /\ ~client.provider /\ ValidArguments(call))
        => /\ call.pc = "threw"
           /\ call.error = MissingProviderError
           /\ call.net = <<>>

\* C1 witness: createRecoup on a facade with neither provider nor signer has
\* thrown MissingProviderError
C1_Witness ==
    /\ Constructed /\ Called
    /\ ~client.provider /\ ~client.signer
    /\ call.variant = "client" /\ call.op = "createRecoup"
    /\ ValidArguments(call)
    /\ call.pc = "threw" /\ call.error = MissingProviderError

\* C2: with a provider and no signer, every Execute-mode mutation called with
\* valid arguments fails with MissingSignerError; and in any configuration
\* MissingSignerError comes only from an Execute-mode mutation: never from an
\* EstimateGas or BuildCallData call, never from a read.
C2_SignerExactlyForExecute ==
    (Constructed /\ Called)
        => /\ (client.provider /\ ~client.signer /\ ValidArguments(call)
                  /\ ExecuteMutation(call))
               => (call.pc = "threw" /\ call.error = MissingSignerError)
           /\ call.error = MissingSignerError => ExecuteMutation(call)

\* C2 witness: an EstimateGas createRecoup on a client without a signer has
\* gone past the prerequisites to the contract
C2_Witness ==
    /\ Constructed /\ Called
    /\ client.provider /\ ~client.signer
    /\ call.variant = "estimateGas" /\ call.op = "createRecoup"
    /\ call.pc = "contract"

\* C3 as stated: constructing with an unsupported chain id fails with
\* UnsupportedChainIdError carrying the supported set
C3_UnsupportedChainError ==
    (config # NoConfig /\ config.chainId \notin SupportedBy(config.entity))
        => ctorError = UnsupportedChainIdError(config.chainId,
                                               SupportedBy(config.entity))

\* C3 amended: constructing with an unsupported chain id always fails and no
\* call is ever made: with UnsupportedChainIdError carrying the supported set,
\* unless includeEnsNames is set with neither provider nor ENS provider, when
\* the base constructor's InvalidConfigError comes first. A supported chain id
\* never gives UnsupportedChainIdError, and an instance only exists, and a
\* call is only made, on a supported chain.
C3_UnsupportedChainFails ==
    config # NoConfig
        => /\ config.chainId \notin SupportedBy(config.entity)
               => /\ ~Constructed
                  /\ ~Called
                  /\ ctorError =
                        IF config.includeEnsNames /\ ~config.provider
                           /\ ~config.ensProvider
                        THEN InvalidConfigError
                        ELSE UnsupportedChainIdError(config.chainId,
                                                     SupportedBy(config.entity))
           /\ config.chainId \in SupportedBy(config.entity)
               => /\ ctorError.name # "UnsupportedChainIdError"
                  /\ ctorError = NoError <=> Constructed
           /\ Constructed
               => /\ client.chainId = config.chainId
                  /\ client.chainId \in SupportedBy(client.entity)

\* C3 witness: a Templates client was refused for its chain id
C3_Witness ==
    /\ config # NoConfig
    /\ config.entity = "Templates"
    /\ config.chainId \notin TEMPLATES_CHAIN_IDS
    /\ ctorError = UnsupportedChainIdError(config.chainId, TEMPLATES_CHAIN_IDS)
    /\ ~Constructed


\* the topics an Execute-mode call of the operation expects
ExpectedTopics(c) ==
    LET topics == client.eventTopics[IF IsCreateRecoup(c) THEN "createRecoup"
                                     ELSE c.op]
    IN  {topics[i] : i \in 1..Len(topics)}

\* the positions of the mined transaction's logs that carry an expected topic
MatchingLogs(c) == {i \in 1..Len(c.logs) : c.logs[i].topic \in ExpectedTopics(c)}

FirstMatching(c) ==
    CHOOSE i \in MatchingLogs(c) : \A j \in MatchingLogs(c) : i <= j

\* C4: when the transaction of an Execute-mode createRecoup is mined and the
\* extractor returns no event (no log carries the expected topic), or the
\* first event it returns has no decoded args, createRecoup fails with
\* TransactionFailedError and returns nothing.
C4_NoEventFails ==
    (Constructed /\ Called /\ call.op = "createRecoup" /\ call.mined)
        => /\ (call.events = <<>> \/ call.events[1].args = NoArgs)
               => /\ call.pc = "threw"
                  /\ call.error = TransactionFailedError
                  /\ call.result = NoValue
           /\ MatchingLogs(call) = {} => call.events = <<>>

\* C4 witness: a mined transaction with logs, none of them expected, made
\* createRecoup throw TransactionFailedError
C4_Witness ==
    /\ Constructed /\ Called
    /\ call.op = "createRecoup" /\ call.mined
    /\ Len(call.logs) > 0 /\ MatchingLogs(call) = {}
    /\ call.pc = "threw" /\ call.error = TransactionFailedError

\* the field of the event's args that names the created entity
CreatedId(c, args) ==
    IF c.op = "createSwapper" THEN [swapperId |-> args.swapper]
    ELSE [waterfallModuleId |-> args.waterfallModule]

\* C5: an Execute-mode createRecoup or createSwapper that returns hands back
\* the first log of the mined transaction that carries an expected topic,
\* with the entity id read from that log's args; and it does return whenever
\* that first matching log has decoded args, whatever the other logs are.
C5_FirstMatchingEvent ==
    (Constructed /\ Called /\ ExecuteMutation(call)
       /\ call.op \in {"createRecoup", "createSwapper"} /\ call.mined)
        => /\ call.pc = "returned"
               => /\ MatchingLogs(call) # {}
                  /\ call.logs[FirstMatching(call)].args # NoArgs
                  /\ call.result =
                       [event |-> call.logs[FirstMatching(call)]]
                       @@ CreatedId(call, call.logs[FirstMatching(call)].args)
           /\ (MatchingLogs(call) # {}
                 /\ call.logs[FirstMatching(call)].args # NoArgs)
               => call.pc = "returned"

\* C5 witness: createRecoup returned the second log, the first one carrying
\* another topic
C5_Witness ==
    /\ Constructed /\ Called
    /\ call.op = "createRecoup" /\ call.mined /\ call.pc = "returned"
    /\ Len(call.logs) = 2
    /\ MatchingLogs(call) = {2}
    /\ call.result.event = call.logs[2]

\* C6: in every mode, when a validator of createRecoup rejects the arguments,
\* the call fails with the error of the first validator that does (token,
\* recipient address, tranches, cross-field rule), and nothing has touched the
\* network: no lookup through the provider, no contract call.
C6_ValidationBeforeNetwork ==
    (Constructed /\ Called /\ IsCreateRecoup(call)
       /\ FirstValidatorError(GivenArgs(call)) # NoError)
        => /\ call.pc = "threw"
           /\ call.error = FirstValidatorError(GivenArgs(call))
           /\ call.net = <<>>
           /\ call.lookup = NoValue
           /\ call.contractCalls = <<>>

\* C6 witness: a BuildCallData createRecoup on a fully configured client was
\* refused for its tranche list
C6_Witness ==
    /\ Constructed /\ Called
    /\ client.provider /\ client.signer
    /\ call.variant = "callData" /\ call.op = "createRecoup"
    /\ call.pc = "threw" /\ call.error = ValidationError("tranches")

\* C7 as stated: a BuildCallData call makes no network call at all
C7_CallDataNoNetwork ==
    (Constructed /\ Called /\ call.variant = "callData") => call.net = <<>>

\* C7 amended: a BuildCallData call never simulates, submits or waits for a
\* transaction and never asks for events; the one network call it can make is
\* createRecoup's tranche and size lookup through the provider, made before
\* the encoding. What it returns is the payload {target, value, data} of the
\* call the contract binding encoded.
C7_CallDataNoSubmission ==
    (Constructed /\ Called /\ call.variant = "callData")
        => /\ call.net \in {<<>>, <<"query">>}
           /\ (IsCreateRecoup(call) /\ call.pc # "threw") => call.net = <<"query">>
           /\ call.net = <<"query">> => IsCreateRecoup(call)
           /\ call.extractorCalls = <<>>
           /\ ~call.mined
           /\ call.pc = "returned"
               => call.result = [address |-> <<"deployed", client.chainId>>,
                                 value |-> 0,
                                 data |-> <<call.contractCalls[1].method,
                                            call.contractCalls[1].args>>]

\* C7 witness: a BuildCallData createRecoup returned its payload after the
\* lookup through the provider
C7_Witness ==
    /\ Constructed /\ Called
    /\ call.variant = "callData" /\ call.op = "createRecoup"
    /\ call.pc = "returned"
    /\ call.net = <<"query">>
    /\ IsCallData(call.result)

\* the validators of createRecoup, in the order they run
ValidatorOrder ==
    <<"validateAddress(token)",
      "validateAddress(nonWaterfallRecipientAddress)",
      "validateRecoupTranches",
      "validateRecoupNonWaterfallRecipient">>

Min(a, b) == IF a <= b THEN a ELSE b

\* C8: whatever the mode, createRecoup runs the same validators in the same
\* order on the arguments given, stops at the same one, and hands the
\* contract's createRecoup the same tuple: the token, the recipient address
\* and index given (defaults filled in), the tranches in tuple shape and the
\* sizes the lookup returned. Only the binding that is called differs.
C8_SameArgumentsInEveryMode ==
    (Constructed /\ Called /\ IsCreateRecoup(call))
        => LET a == GivenArgs(call)
               n == Min(Len(call.ran), Len(ValidatorOrder))
           IN  /\ n >= 1
               /\ SubSeq(call.ran, 1, n) = SubSeq(ValidatorOrder, 1, n)
               /\ FirstValidatorError(a) = NoError => Len(call.ran) > Len(ValidatorOrder)
               /\ call.contractCalls # <<>>
                   => /\ Len(call.contractCalls) = 1
                      /\ call.contractCalls[1].method = "createRecoup"
                      /\ call.contractCalls[1].contract =
                             Instance(call.variant).contract
                      /\ call.contractCalls[1].args =
                             <<a.token,
                               a.nonWaterfallRecipientAddress,
                               a.nonWaterfallRecipientTrancheIndex,
                               [i \in 1..Len(a.tranches) |-> <<a.tranches[i]>>],
                               call.lookup.trancheSizes>>

\* C8 witness: an EstimateGas createRecoup given a recipient address and its
\* tranche index has called the contract
C8_Witness ==
    /\ Constructed /\ Called
    /\ call.variant = "estimateGas" /\ call.op = "createRecoup"
    /\ call.raw.nonWaterfallRecipientAddress = "0xA"
    /\ call.raw.nonWaterfallRecipientTrancheIndex = 1
    /\ call.contractCalls # <<>>

\* C9: in every state, before, during and after any calls, the facade is
\* bound to Execute, its callData member to BuildCallData and its estimateGas
\* member to EstimateGas, and all three hold the chainId, provider and signer
\* given to the facade.
C9_ModeBoundAtConstruction ==
    Constructed
        => /\ client.transactionType = "Transaction"
           /\ client.callData.transactionType = "CallData"
           /\ client.estimateGas.transactionType = "GasEstimate"
           /\ \A v \in Variants :
                 /\ Instance(v).chainId = config.chainId
                 /\ Instance(v).provider = config.provider
                 /\ Instance(v).signer = config.signer

\* C9 witness: a call on the estimateGas member of a Templates client is over
C9_Witness ==
    /\ Constructed /\ Called
    /\ client.entity = "Templates"
    /\ call.variant = "estimateGas"
    /\ call.pc = "returned"

\* the shape of a response: a transaction, a gas quantity or call data
Shape(r) ==
    IF "wait" \in DOMAIN r THEN "tx"
    ELSE IF "isBigNumber" \in DOMAIN r THEN "gas"
    ELSE "callData"

\* the shape an instance's mode accepts
ModeShape(variant) ==
    CASE variant = "callData" -> "callData"
      [] variant = "estimateGas" -> "gas"
      [] OTHER -> "tx"

\* C10: a createRecoup call accepts the dispatch's response only in the shape
\* of its mode: what an EstimateGas call returns is the gas quantity, what a
\* BuildCallData call returns is the call data, what the facade's submit
\* returns (and what createRecoup hands the extractor) is the transaction;
\* a response of another mode's shape makes the call fail with the
\* 'Invalid response' error.
C10_ResultHasModeShape ==
    (Constructed /\ Called /\ IsCreateRecoup(call) /\ call.response # NoValue)
        => IF Shape(call.response) # ModeShape(call.variant)
           THEN /\ call.pc = "threw"
                /\ call.error = InvalidResponse
                /\ call.result = NoValue
                /\ call.extractorCalls = <<>>
           ELSE /\ call.error # InvalidResponse
                /\ (call.pc = "returned" /\ call.variant # "client")
                       => call.result = call.response
                /\ (call.pc = "returned"
                      /\ call.op = "submitCreateRecoupTransaction")
                       => call.result = [tx |-> call.response]
                /\ (call.variant = "client" /\ call.op = "createRecoup")
                       => /\ Len(call.extractorCalls) = 1
                          /\ call.extractorCalls[1].tx = call.response

\* C10 witness: an EstimateGas createRecoup was answered with a transaction
\* and threw 'Invalid response'
C10_Witness ==
    /\ Constructed /\ Called
    /\ call.variant = "estimateGas" /\ call.op = "createRecoup"
    /\ call.response = TxResponse
    /\ call.pc = "threw" /\ call.error = InvalidResponse

\* the single-field validators accept the arguments: the token, the recipient
\* address and every tranche
SingleFieldsValid(a) ==
    /\ IsAddress(a.token)
    /\ IsAddress(a.nonWaterfallRecipientAddress)
    /\ \A i \in 1..Len(a.tranches) : IsAddress(a.tranches[i])

\* the (recipient address, tranche index) pair breaks the cross-field rule
PairMismatch(a) ==
    \/ /\ a.nonWaterfallRecipientAddress = AddressZero
       /\ a.nonWaterfallRecipientTrancheIndex # UndefinedIndex
    \/ /\ a.nonWaterfallRecipientAddress # AddressZero
       /\ \/ a.nonWaterfallRecipientTrancheIndex = UndefinedIndex
          \/ a.nonWaterfallRecipientTrancheIndex < 0
          \/ a.nonWaterfallRecipientTrancheIndex >= Len(a.tranches)

\* C11: for every createRecoup whose single-field validators pass, in every
\* mode: a zero recipient address with a defined index, or a non-zero address
\* with an undefined index or one outside 0..tranches.length-1, makes the call
\* throw InvalidArgumentError from the cross-field rule; every other pair gets
\* past the rule (the call goes on to the provider check). The omitted pair
\* (defaulted to zero address, undefined index) gets past it.
C11_CrossFieldRule ==
    (Constructed /\ Called /\ IsCreateRecoup(call)
     /\ SingleFieldsValid(GivenArgs(call)))
        => LET a == GivenArgs(call)
           IN  /\ PairMismatch(a)
                   => /\ call.pc = "threw"
                      /\ call.error.name = "InvalidArgumentError"
                      /\ call.ran[Len(call.ran)] =
                             "validateRecoupNonWaterfallRecipient"
               /\ ~PairMismatch(a)
                   => /\ call.error.name # "InvalidArgumentError"
                      /\ Len(call.ran) > Len(ValidatorOrder)
               /\ (/\ call.raw.nonWaterfallRecipientAddress = Omitted
                   /\ call.raw.nonWaterfallRecipientTrancheIndex = UndefinedIndex)
                   => Len(call.ran) > Len(ValidatorOrder)

\* C11 witness: a createRecoup with a non-zero recipient address and the index
\* tranches.length, one past the last tranche, was rejected by the rule
C11_Witness ==
    /\ Constructed /\ Called /\ IsCreateRecoup(call)
    /\ SingleFieldsValid(GivenArgs(call))
    /\ call.raw.nonWaterfallRecipientAddress = "0xA"
    /\ call.raw.nonWaterfallRecipientTrancheIndex = Len(call.raw.tranches)
    /\ call.pc = "threw"
    /\ call.error = InvalidArgumentError("nonWaterfallRecipientTrancheIndex")

IsSwapperWrite(c) == c.op \in SwapperWrites

\* a percentage in parts per million
PartsPerMillion(percent) == percent * 10000

\* the arguments of a Swapper write in the contract's declared order, raw
\* values replaced by formatted ones
DeclaredArgs(c) ==
    LET r == c.raw
    IN  CASE c.op = "createSwapper" ->
               <<r.owner, r.paused, r.beneficiary, r.tokenToBeneficiary,
                 <<r.oracleParams.address>>,
                 PartsPerMillion(r.defaultScaledOfferFactorPercent),
                 [i \in 1..Len(r.scaledOfferFactorOverrides) |->
                     <<<<r.scaledOfferFactorOverrides[i].baseToken,
                         r.scaledOfferFactorOverrides[i].quoteToken>>,
                       PartsPerMillion(
                           r.scaledOfferFactorOverrides[i]
                               .scaledOfferFactorPercent)>>]>>
          [] c.op = "setBeneficiary" -> r.beneficiary
          [] c.op = "setTokenToBeneficiary" -> r.tokenToBeneficiary
          [] c.op = "setOracle" -> r.oracle
          [] c.op = "setDefaultScaledOfferFactor" ->
               PartsPerMillion(r.defaultScaledOfferFactorPercent)
          [] c.op = "setPaused" -> r.paused
          [] OTHER ->
               [i \in 1..Len(r.calls) |->
                   <<r.calls[i].to, r.calls[i].value, r.calls[i].data>>]

\* the call got past its checks to the contract
ReachedContract(c) ==
    \/ c.pc \in {"contract", "events", "returned"}
    \/ /\ c.pc = "threw"
       /\ c.error \in {InvalidResponse, TransactionFailedError,
                       NetworkError("contract"),
                       NetworkError("getTransactionEvents")}

\* C12 as stated: every Swapper write that gets past its checks calls the
\* contract's write exactly once, and the declared arguments (for
\* createSwapper the single seven-place tuple, for setDefaultScaledOfferFactor
\* the formatted factor, for execCalls the list of [to, value, data] triples)
\* are all it is called with.
C12_WriteArgsOnly ==
    (Constructed /\ Called /\ IsSwapperWrite(call) /\ ReachedContract(call))
        => /\ Len(call.contractCalls) = 1
           /\ call.contractCalls[1].method = call.op
           /\ call.contractCalls[1].args = <<DeclaredArgs(call)>>

\* C12, amended: every write calls its contract's write at most once, and
\* exactly once when it gets past its checks (and, for createRecoup, its
\* lookup); a Swapper write calls it with the declared arguments, formatted
\* and in order, followed by the transaction overrides object, which is empty
\* when the caller gives none.
C12_WriteArgsThenOverrides ==
    (Constructed /\ Called /\ call.op \notin SwapperReads)
        => /\ Len(call.contractCalls) <= 1
           /\ (IsSwapperWrite(call) /\ ~ReachedContract(call))
                  => call.contractCalls = <<>>
           /\ (IsSwapperWrite(call) /\ ReachedContract(call))
                  => /\ Len(call.contractCalls) = 1
                     /\ call.contractCalls[1].method = call.op
                     /\ call.contractCalls[1].contract =
                            Instance(call.variant).contract
                     /\ call.contractCalls[1].args =
                            <<DeclaredArgs(call), NoTransactionOverrides>>
           /\ (IsCreateRecoup(call) /\ ReachedContract(call))
                  => Len(call.contractCalls) = 1

\* C12 witness: an Execute execCalls given two different calls has called the
\* contract once and returned
C12_Witness ==
    /\ Constructed /\ Called
    /\ call.variant = "client" /\ call.op = "execCalls"
    /\ Len(call.raw.calls) = 2
    /\ call.raw.calls[1] # call.raw.calls[2]
    /\ call.pc = "returned"
    /\ Len(call.contractCalls) = 1

\* the topic list the client holds for the call's operation
OperationTopics(c) ==
    client.eventTopics[IF IsCreateRecoup(c) THEN "createRecoup" ELSE c.op]

\* the dispatch of the call has returned a transaction
DispatchReturnedTransaction(c) ==
    c.response # NoValue /\ IsContractTransaction(c.response)

\* the extractor was invoked once, with the call's transaction and the topics
\* of the call's operation
ExtractedOnce(c) ==
    /\ Len(c.extractorCalls) = 1
    /\ c.extractorCalls[1].tx = c.response
    /\ c.extractorCalls[1].topics = OperationTopics(c)

\* C13 as stated: EstimateGas and BuildCallData calls never invoke the
\* extractor; an Execute-mode write invokes it only once its dispatch has
\* returned the transaction, and every Execute-mode write whose dispatch has
\* returned the transaction has invoked it exactly once, with that
\* transaction and the topic list of its own operation.
C13_ExtractorInEveryExecuteWrite ==
    (Constructed /\ Called)
        => /\ call.variant # "client" => call.extractorCalls = <<>>
           /\ call.extractorCalls # <<>> => DispatchReturnedTransaction(call)
           /\ (ExecuteMutation(call) /\ DispatchReturnedTransaction(call))
                  => ExtractedOnce(call)

\* C13, amended: EstimateGas and BuildCallData calls never invoke the
\* extractor, and neither does the facade's submitCreateRecoupTransaction,
\* which hands back the transaction unmined; every other Execute-mode write
\* invokes it only once its dispatch has returned the transaction, and then
\* exactly once, with that transaction and the topic list of its own
\* operation, which is no other operation's.
C13_ExtractorInAwaitedExecuteWrite ==
    (Constructed /\ Called)
        => /\ call.variant # "client" => call.extractorCalls = <<>>
           /\ call.op = "submitCreateRecoupTransaction"
                  => call.extractorCalls = <<>>
           /\ call.extractorCalls # <<>>
                  => /\ DispatchReturnedTransaction(call)
                     /\ Len(call.contractCalls) = 1
           /\ (/\ ExecuteMutation(call)
               /\ call.op # "submitCreateRecoupTransaction"
               /\ DispatchReturnedTransaction(call))
                  => /\ ExtractedOnce(call)
                     /\ \A op \in DOMAIN client.eventTopics :
                            client.eventTopics[op] = call.extractorCalls[1].topics
                                => op = (IF IsCreateRecoup(call)
                                         THEN "createRecoup" ELSE call.op)

\* C13 witness: an Execute createRecoup whose dispatch returned the
\* transaction has invoked the extractor and returned
C13_Witness ==
    /\ Constructed /\ Called
    /\ call.variant = "client" /\ call.op = "createRecoup"
    /\ call.response = TxResponse
    /\ Len(call.extractorCalls) = 1
    /\ call.pc = "returned"

\* how many times the step was taken on the network in the call
NetCount(c, step) == Cardinality({i \in 1..Len(c.net) : c.net[i] = step})

\* C14: within one call of any operation the contract's write or simulate
\* primitive is invoked at most once (one contract call, at most one
\* submission or simulation on the network, and at most one of every other
\* network step); once a network step has been rejected the call is over,
\* having thrown that rejection as it came and returned nothing.
C14_NoRetries ==
    (Constructed /\ Called)
        => /\ Len(call.contractCalls) <= 1
           /\ NetCount(call, "submit") + NetCount(call, "simulate") <= 1
           /\ NetCount(call, "query") <= 1
           /\ NetCount(call, "wait") <= 1
           /\ Len(call.extractorCalls) <= 1
           /\ call.rejection # NoError
                  => /\ call.pc = "threw"
                     /\ call.error = call.rejection
                     /\ call.result = NoValue

\* C14 witness: the network rejected the submission of an Execute
\* createRecoup, and the call threw after its one contract call
C14_Witness ==
    /\ Constructed /\ Called
    /\ call.variant = "client" /\ call.op = "createRecoup"
    /\ call.rejection = NetworkError("contract")
    /\ call.net = <<"query", "submit">>
    /\ Len(call.contractCalls) = 1
    /\ call.pc = "threw"

\* the facade as its constructor built it from the configuration given
ConstructedClient == TemplatesClientNew(config).instance

\* the instance of the facade as constructed that a call of the variant runs on
ConstructedInstance(variant) ==
    CASE variant = "callData" -> ConstructedClient.callData
      [] variant = "estimateGas" -> ConstructedClient.estimateGas
      [] OTHER -> ConstructedClient

\* createRecoup run alone on the client as constructed, from its call to its
\* end, against the transport responses c met: the lookup's answer, the
\* contract's response, the mined logs, or the rejection of one of the three
AloneFromContract(c, called) ==
    LET r == c.response
        answered == [called EXCEPT !.response = r]
        dispatched ==
            CASE c.variant = "callData" -> CallDataCreateRecoup(answered, r)
              [] c.variant = "estimateGas" ->
                     GasEstimatesCreateRecoup(answered, r)
              [] c.op = "submitCreateRecoupTransaction" ->
                     SubmitCreateRecoupTransaction(answered, r)
              [] OTHER ->
                     LET submitted == SubmitCreateRecoupTransaction(answered, r)
                     IN  IF submitted.pc = "threw" THEN submitted
                         ELSE [answered EXCEPT
                                 !.pc = "events",
                                 !.extractorCalls =
                                     <<[tx |-> r,
                                        topics |->
                                          ConstructedClient.eventTopics
                                              .createRecoup]>>,
                                 !.net = Append(@, "wait")]
    IN  IF c.rejection = NetworkError("contract")
        THEN Reject(called, c.rejection)
        ELSE IF dispatched.pc # "events" THEN dispatched
        ELSE IF c.rejection = NetworkError("getTransactionEvents")
        THEN Reject(dispatched, c.rejection)
        ELSE LET events == GetTransactionEvents(
                               c.logs, dispatched.extractorCalls[1].topics)
             IN  CreateRecoupResult(
                     [dispatched EXCEPT !.mined = TRUE, !.logs = c.logs,
                                        !.events = events],
                     events)

AloneOutcome(c) ==
    LET self == ConstructedInstance(c.variant)
        begun == CreateRecoupTransactionBegin(
                     self, NewCall(c.variant, c.op, c.raw,
                                   EntryArgs(c.variant, c.raw)))
    IN  IF begun.pc = "threw" THEN begun
        ELSE IF c.rejection = NetworkError("getRecoupTranchesAndSizes")
        THEN Reject(begun, c.rejection)
        ELSE AloneFromContract(
                 c, CreateRecoupTransactionCall(self, begun, c.lookup))

\* C15: with calls of createRecoup in flight together on one Templates client
\* and resumed in any order, the client stays as its constructor built it
\* (chainId, mode, provider, signer, contract binding and eventTopics of the
\* facade and of both members), and every call that is over ended exactly as
\* it ends when run alone against the transport responses it met.
C15_CallsShareNoState ==
    Constructed
        => /\ client = ConstructedClient
           /\ (Called /\ CallOver)
                  => [call EXCEPT !.resumed = FALSE] = AloneOutcome(call)

\* C15 witness: a call that was suspended and resumed has returned while
\* another, of another mode, itself suspended and resumed before, is still
\* in flight
C15_Witness ==
    /\ Constructed /\ Called
    /\ call.pc = "returned" /\ call.resumed
    /\ Len(pending) = 1
    /\ pending[1].resumed
    /\ pending[1].variant # call.variant

\* the configuration asks for ENS names and gives nothing to resolve them with
EnsNamesWithoutProvider(cfg) ==
    cfg.includeEnsNames /\ ~cfg.provider /\ ~cfg.ensProvider

\* C16: a constructor given includeEnsNames = true with neither a provider
\* nor an ENS provider throws InvalidConfigError and leaves no client,
\* whatever the chain id; so the facade and both members of every client
\* that exists either do not include ENS names or hold a provider or an ENS
\* provider.
C16_EnsNamesNeedProvider ==
    /\ (config # NoConfig /\ EnsNamesWithoutProvider(config))
           => /\ client = NoClient
              /\ ctorError = InvalidConfigError
    /\ Constructed
           => \A v \in Variants : ~EnsNamesWithoutProvider(Instance(v))

\* C16 witness: a Templates client asked for on a supported chain with
\* includeEnsNames and no provider was refused with InvalidConfigError
C16_Witness ==
    /\ config # NoConfig
    /\ config.entity = "Templates"
    /\ config.chainId \in TEMPLATES_CHAIN_IDS
    /\ config.includeEnsNames /\ ~config.provider /\ ~config.ensProvider
    /\ client = NoClient
    /\ ctorError = InvalidConfigError

\* what createRecoup throws before any network step, by the stated
\* precedence: token address, recipient address, tranche list, cross-field
\* rule, provider, signer (Execute only)
PrecedenceError(c) ==
    LET a == GivenArgs(c)
    IN  IF ~IsAddress(a.token) THEN ValidationError("token")
        ELSE IF ~IsAddress(a.nonWaterfallRecipientAddress)
        THEN ValidationError("nonWaterfallRecipientAddress")
        ELSE IF \E i \in 1..Len(a.tranches) : ~IsAddress(a.tranches[i])
        THEN ValidationError("tranches")
        ELSE IF PairMismatch(a)
        THEN InvalidArgumentError("nonWaterfallRecipientTrancheIndex")
        ELSE IF ~config.provider THEN MissingProviderError
        ELSE IF c.variant = "client" /\ ~config.signer THEN MissingSignerError
        ELSE NoError

\* C17: a createRecoup call, in any mode, fails before its first network step
\* exactly when one of the checks token address, recipient address, tranche
\* list, cross-field rule, provider, signer (Execute only) fails, and the
\* error is that of the first of them in this order: with invalid arguments
\* the validation error surfaces even when the client has no provider, and
\* no check after the failing one is made.
C17_ValidationFirst ==
    (Constructed /\ Called /\ IsCreateRecoup(call))
        => LET expected == PrecedenceError(call)
           IN  /\ expected # NoError
                   => /\ call.pc = "threw"
                      /\ call.error = expected
                      /\ call.net = <<>>
               /\ expected = NoError => call.net # <<>>
               /\ \A i \in 1..Len(call.ran) :
                      i <= Len(ValidatorOrder) => call.ran[i] = ValidatorOrder[i]
               /\ (call.error.name \in {"ValidationError", "InvalidArgumentError"})
                      => Len(call.ran) <= Len(ValidatorOrder)

\* C17 witness: a createRecoup with an invalid tranche list on a client with
\* no provider threw the validation error of the tranche list
C17_Witness ==
    /\ Constructed /\ Called /\ IsCreateRecoup(call)
    /\ ~client.provider
    /\ call.pc = "threw"
    /\ call.error = ValidationError("tranches")
    /\ call.ran = SubSeq(ValidatorOrder, 1, 3)

\* the recipients' percent allocations sum to exactly 100: in tenths, 1000
isFullyAllocatedExactly(f) ==
    LET total[i \in 0..Len(f.recipients)] ==
            IF i = 0 THEN 0 ELSE total[i - 1] + f.recipients[i]
    IN  total[Len(f.recipients)] = 1000

\* the button is enabled exactly when the wallet is connected, its chain (if
\* known) is the form's, the form is valid and the allocations sum to 100
ButtonEnabledExactly ==
    form.mounted
        => (~isButtonDisabled(form)
              <=> /\ form.isConnected
                  /\ form.chain = ChainUndefined \/ form.chain.id = form.chainId
                  /\ form.isFormValid
                  /\ isFullyAllocatedExactly(form))

\* after a submit onSuccess is called at most once, only when createSplit
\* returned a truthy result, with the first returned event and the split id
\* read from its args
OnSuccessOncePerTruthyResult ==
    form.mounted
        => \A i \in 1..Len(form.submits) :
              LET submit == form.submits[i]
              IN  /\ Len(submit.onSuccess) <= 1
                  /\ submit.onSuccess # <<>>
                        => /\ submit.pc = "done"
                           /\ submit.result # NoValue
                           /\ form.hasOnSuccess
                           /\ Len(submit.result.events) > 0
                                 => /\ submit.onSuccess[1].event =
                                           submit.result.events[1]
                                    /\ submit.result.events[1].args # NoValue
                                          => submit.onSuccess[1].splitId =
                                                 submit.result.events[1]
                                                     .args.split

\* C18: in every state of the rendered form the submit button is enabled
\* exactly when the wallet is connected, its chain (if known) equals the
\* form's chainId, the form is valid and the recipients' percent allocations
\* sum to exactly 100; and for every submit onSuccess is called at most once,
\* only for a truthy result of createSplit, with the split id of the first
\* returned event's args.
C18_ButtonAndOnSuccess == ButtonEnabledExactly /\ OnSuccessOncePerTruthyResult

====
